---- MODULE Spec2Model ----
(***************************************************************************)
(* Token lifecycle of the KMRL fleet-management front end:                 *)
(*   AuthService (src/src/services/auth.ts): the persisted credential pair *)
(*   in localStorage, expiry evaluation, getValidAccessToken;              *)
(*   ApiClient (src/unnamed/part_002): authenticated requests, 401 purge;  *)
(*   useAuthInterceptor (src/unnamed/part_003): the background timer and   *)
(*   authenticatedFetch.                                                   *)
(*   SessionManager (src/src/components/session/SessionManager.tsx): the   *)
(*   session list, its reloads, the terminations, formatTimeRemaining.     *)
(* AuthContext (login, logout, refreshAccessToken, token) is not part of   *)
(* the sources at hand; it is modelled from the specification's text.      *)
(***************************************************************************)
EXTENDS Integers, Sequences, FiniteSets, TLC

VARIABLES
    ls,          \* localStorage: key -> stored string, Null when getItem gives null
    now,         \* the wall clock `new Date()` reads
    issued,      \* number of tokens the backend has issued so far (names them)
    flow,        \* per slot: one asynchronous operation and its locals
    ctxToken,    \* AuthContext's `token` state
    hookMounted, \* useAuthInterceptor is mounted
    timer,       \* the setInterval of the hook's effect is active
    intervals,   \* number of intervals created by the hook and not cleared
    started,     \* number of operations begun so far (logins included)
    form,        \* the page's form state (passwordData, newComponent, newMileageLog)
    toast,       \* the toast shown last
    netCalls,    \* requests the page's handlers have issued
    pending,     \* the service call a handler is awaiting
    submits,     \* handler invocations so far
    handled,     \* the last response given to a handleResponse, and what it threw
    showSessionDialog, \* SessionManager: the dialog is open
    sessions,    \* SessionManager: the `sessions` state (the list displayed)
    loading,     \* SessionManager: the `loading` state
    srvSessions, \* ids of the sessions alive on the backend
    loads,       \* the loadSessions calls in flight, in order of their start
    terms,       \* the termination requests in flight, in order of their start
    callbacks,   \* the onSessionTerminated prop, its invocations, what the last saw
    shownAfter,  \* the `after` of the load whose response is displayed
    tally,       \* loads and terminations started, terminations succeeded
    rendered     \* a time_remaining_seconds value and what is rendered for it

smVars == <<showSessionDialog, sessions, loading, srvSessions, loads, terms, callbacks,
            shownAfter, tally, rendered>>

uiVars == <<form, toast, netCalls, pending, submits, handled, smVars>>

vars == <<ls, now, issued, flow, ctxToken, hookMounted, timer, intervals, started,
          uiVars>>

(***************************************************************************)
(* Bounds of the model.  Time is counted in abstract clock ticks.          *)
(***************************************************************************)
MaxTime == 2
MaxStarted == 3
AccessLifetime == 1
RefreshLifetime == 2

(***************************************************************************)
(* Values.                                                                 *)
(***************************************************************************)
\* What localStorage.getItem returns for a key that is not stored.
Null == "<null>"

AccessKey == "kmrl-access-token"
RefreshKey == "kmrl-refresh-token"
AccessExpKey == "kmrl-access-expires-at"
RefreshExpKey == "kmrl-refresh-expires-at"
UserKey == "kmrl-user-data"

TokenKeys == {AccessKey, RefreshKey, AccessExpKey, RefreshExpKey}
Keys == TokenKeys \cup {UserKey}

\* JavaScript truthiness of `string | null`: null and "" are falsy.
Truthy(v) == v # Null /\ v # ""

\* localStorage.setItem(key, value) stores String(value): null becomes "null".
StringOf(v) == IF v = Null THEN "null" ELSE v

SetItem(st, k, v) == [st EXCEPT ![k] = StringOf(v)]

RemoveItem(st, k) == [st EXCEPT ![k] = Null]

\* Timestamps the backend can put in a response, and their string form.
Times == 0 .. (MaxTime + AccessLifetime + RefreshLifetime)

IsoString(t) == ToString(t)

\* `new Date(s)`: a valid date exactly for the strings that are timestamps.
IsDate(s) == \E t \in Times : IsoString(t) = s

DateOf(s) == CHOOSE t \in Times : IsoString(t) = s

\* Tokens are opaque strings; the backend numbers the ones it issues.
AccessName(n) == "acc" \o ToString(n)

RefreshName(n) == "ref" \o ToString(n)

\* A token handed to the legacy storeToken(token).
LegacyToken == "legacy"

UserJson == "{user}"

(***************************************************************************)
(* AuthService: storage and expiry utilities.                              *)
(***************************************************************************)
StoreTokens(st, accessToken, refreshToken, accessExpiresAt, refreshExpiresAt) ==
    SetItem(SetItem(SetItem(SetItem(st,
        AccessKey, accessToken),
        RefreshKey, refreshToken),
        AccessExpKey, accessExpiresAt),
        RefreshExpKey, refreshExpiresAt)

RemoveTokens(st) ==
    RemoveItem(RemoveItem(RemoveItem(RemoveItem(st,
        AccessKey), RefreshKey), AccessExpKey), RefreshExpKey)

StoreUser(st) == SetItem(st, UserKey, UserJson)

RemoveUser(st) == RemoveItem(st, UserKey)

StoreToken(st, token) == SetItem(st, AccessKey, token)

\* Variant: the comparison made strict, so a token is still good at its expiry.
IsTokenExpired_Strict(expiresAt, t) == IsDate(expiresAt) /\ t > DateOf(expiresAt)

\* new Date() >= new Date(expiresAt); a comparison with an invalid date is false.
IsTokenExpired(expiresAt, t) == IsDate(expiresAt) /\ t >= DateOf(expiresAt)

IsAccessTokenExpired(st, t) ==
    ~Truthy(st[AccessExpKey]) \/ IsTokenExpired(st[AccessExpKey], t)

IsRefreshTokenExpired(st, t) ==
    ~Truthy(st[RefreshExpKey]) \/ IsTokenExpired(st[RefreshExpKey], t)

\* Variant: a session counts as authenticated only while the access token is fresh.
IsAuthenticated_NeedsFreshAccess(st, t) ==
    Truthy(st[AccessKey]) /\ Truthy(st[RefreshKey]) /\ ~IsRefreshTokenExpired(st, t)
        /\ ~IsAccessTokenExpired(st, t)

IsAuthenticated(st, t) ==
    Truthy(st[AccessKey]) /\ Truthy(st[RefreshKey]) /\ ~IsRefreshTokenExpired(st, t)

(***************************************************************************)
(* AuthService.getValidAccessToken, up to its first await.                 *)
(* path names the return statement reached: "missing" (line 397), "stored" *)
(* (line 402), "expired" (line 409), or "refresh" when the call goes on to *)
(* await refreshToken (line 414).                                          *)
(***************************************************************************)
\* Variant: the freshness test of line 401 left out, so a fresh token is refreshed.
GetValidSync_NoFreshCheck(st, t) ==
    LET accessToken == st[AccessKey]
        refreshToken == st[RefreshKey]
    IN  IF ~Truthy(accessToken) \/ ~Truthy(refreshToken)
        THEN [path |-> "missing", tok |-> Null, st |-> st]
        ELSE IF IsRefreshTokenExpired(st, t)
        THEN [path |-> "expired", tok |-> Null, st |-> RemoveUser(RemoveTokens(st))]
        ELSE [path |-> "refresh", tok |-> Null, st |-> st]

\* Variant: the expired-refresh branch returns null without removeTokens().
GetValidSync_NoPurge(st, t) ==
    LET accessToken == st[AccessKey]
        refreshToken == st[RefreshKey]
    IN  IF ~Truthy(accessToken) \/ ~Truthy(refreshToken)
        THEN [path |-> "missing", tok |-> Null, st |-> st]
        ELSE IF ~IsAccessTokenExpired(st, t)
        THEN [path |-> "stored", tok |-> accessToken, st |-> st]
        ELSE IF IsRefreshTokenExpired(st, t)
        THEN [path |-> "expired", tok |-> Null, st |-> RemoveUser(st)]
        ELSE [path |-> "refresh", tok |-> Null, st |-> st]

\* Variant: the refresh-expiry test of line 406 left out, so an expired refresh
\* token is still sent to the refresh endpoint.
GetValidSync_NoRefreshExpiryCheck(st, t) ==
    LET accessToken == st[AccessKey]
        refreshToken == st[RefreshKey]
    IN  IF ~Truthy(accessToken) \/ ~Truthy(refreshToken)
        THEN [path |-> "missing", tok |-> Null, st |-> st]
        ELSE IF ~IsAccessTokenExpired(st, t)
        THEN [path |-> "stored", tok |-> accessToken, st |-> st]
        ELSE [path |-> "refresh", tok |-> Null, st |-> st]

\* Variant: a missing token is treated like an expired session and purged.
GetValidSync_PurgeOnMissing(st, t) ==
    LET accessToken == st[AccessKey]
        refreshToken == st[RefreshKey]
    IN  IF ~Truthy(accessToken) \/ ~Truthy(refreshToken)
        THEN [path |-> "missing", tok |-> Null, st |-> RemoveUser(RemoveTokens(st))]
        ELSE IF ~IsAccessTokenExpired(st, t)
        THEN [path |-> "stored", tok |-> accessToken, st |-> st]
        ELSE IF IsRefreshTokenExpired(st, t)
        THEN [path |-> "expired", tok |-> Null, st |-> RemoveUser(RemoveTokens(st))]
        ELSE [path |-> "refresh", tok |-> Null, st |-> st]

GetValidSync(st, t) ==
    LET accessToken == st[AccessKey]
        refreshToken == st[RefreshKey]
    IN  IF ~Truthy(accessToken) \/ ~Truthy(refreshToken)
        THEN [path |-> "missing", tok |-> Null, st |-> st]
        ELSE IF ~IsAccessTokenExpired(st, t)
        THEN [path |-> "stored", tok |-> accessToken, st |-> st]
        ELSE IF IsRefreshTokenExpired(st, t)
        THEN [path |-> "expired", tok |-> Null, st |-> RemoveUser(RemoveTokens(st))]
        ELSE [path |-> "refresh", tok |-> Null, st |-> st]

\* Variant: a response does not shorten the stored access expiry, so the token
\* of one response can be left with the expiry of another.
RefreshStored_KeepLaterExpiry(st, refreshToken, resp) ==
    LET keep == /\ IsDate(st[AccessExpKey]) /\ IsDate(resp.exp)
                /\ DateOf(st[AccessExpKey]) > DateOf(resp.exp)
    IN  StoreTokens(st, resp.access, refreshToken,
                    IF keep THEN st[AccessExpKey] ELSE resp.exp, st[RefreshExpKey])

\* The try branch after a successful refresh (lines 415-421).
RefreshStored(st, refreshToken, resp) ==
    StoreTokens(st, resp.access, refreshToken, resp.exp, st[RefreshExpKey])

\* Variant: the catch branch forgets removeUser().
RefreshFailed_KeepUser(st) == RemoveTokens(st)

\* The catch branch (lines 422-426).
RefreshFailed(st) == RemoveUser(RemoveTokens(st))

(***************************************************************************)
(* Asynchronous operations.  A slot runs one operation at a time:          *)
(*   "call"  a bare authService.getValidAccessToken()                      *)
(*   "api"   ApiClient.get/post/put/patch/delete                           *)
(*   "fetch" useAuthInterceptor.authenticatedFetch                         *)
(*   "svc"   an AuthService method sent with a bearer token (getProfile..) *)
(*   "check" the hook's checkAndRefreshToken (slot "bg" only)              *)
(***************************************************************************)
UserSlots == {"u1", "u2"}
Slots == UserSlots \cup {"bg"}

NoResp == [ok |-> FALSE, access |-> Null, exp |-> Null]

Idle ==
    [kind |-> "none", pc |-> "idle",
     rt |-> Null,          \* refreshToken captured at line 394
     rx |-> Null,          \* refresh expiry stored when the call began
     nRefresh |-> 0,       \* refresh requests this operation has sent
     resp |-> NoResp,      \* the refresh endpoint's answer
     path |-> "none",      \* return statement of getValidAccessToken
     tok |-> Null,         \* what getValidAccessToken resolved to
     bearer |-> Null,      \* token of the Authorization header sent
     sent |-> FALSE,       \* an HTTP request was dispatched
     status |-> 0,         \* HTTP status received
     outcome |-> "none",   \* "resolved" | "rejected"
     out |-> FALSE,        \* an awaited logout() has completed
     nav |-> FALSE,        \* the caller was sent to '/'
     torn |-> FALSE,       \* the hook's cleanup ran while this check was pending
     err |-> "none"]       \* message of the Error authenticatedFetch threw

Free(s) == flow[s].pc \in {"idle", "done"}

\* A user operation takes the first free slot; "u2" serves an operation that
\* starts while the one in "u1" is still in flight.
CanBegin(s) ==
    /\ s \in UserSlots /\ Free(s) /\ (s = "u2" => ~Free("u1"))
    /\ started < MaxStarted

\* The results of settled operations are kept until the next one starts.
Cleared(fl) == [s \in Slots |-> IF fl[s].pc = "done" THEN Idle ELSE fl[s]]

\* Variant: a failed refresh exchange is passed on to the caller of a bare
\* call as a rejection instead of a null result.
Resume_RejectsOnFailure(f, tok, path) ==
    LET g == [f EXCEPT !.tok = tok, !.path = path]
    IN  CASE f.kind = "call" ->
               [g EXCEPT !.pc = "done",
                         !.outcome = IF path = "failed" THEN "rejected" ELSE "resolved"]
          [] f.kind = "api" ->
               [g EXCEPT !.pc = "httpSent", !.sent = TRUE,
                         !.bearer = IF Truthy(tok) THEN tok ELSE Null]
          [] f.kind = "fetch" ->
               IF Truthy(tok)
               THEN [g EXCEPT !.pc = "httpSent", !.sent = TRUE, !.bearer = tok]
               ELSE [g EXCEPT !.pc = "logout"]

\* The caller's continuation once getValidAccessToken has resolved to tok.
Resume(f, tok, path) ==
    LET g == [f EXCEPT !.tok = tok, !.path = path]
    IN  CASE f.kind = "call" ->
               [g EXCEPT !.pc = "done", !.outcome = "resolved"]
          [] f.kind = "api" ->
               \* getAuthHeaders adds the header only for a truthy token; the
               \* request is dispatched either way (part_002 lines 18-24, 58).
               [g EXCEPT !.pc = "httpSent", !.sent = TRUE,
                         !.bearer = IF Truthy(tok) THEN tok ELSE Null]
          [] f.kind = "fetch" ->
               IF Truthy(tok)
               THEN [g EXCEPT !.pc = "httpSent", !.sent = TRUE, !.bearer = tok]
               ELSE [g EXCEPT !.pc = "logout"]

\* authService.getValidAccessToken() called from `kind`, run to its first await.
BeginGetValid(s, kind) ==
    LET r == GetValidSync(ls, now)
        f == [Idle EXCEPT !.kind = kind, !.rt = ls[RefreshKey], !.rx = ls[RefreshExpKey]]
    IN  /\ ls' = r.st
        /\ flow' = [Cleared(flow) EXCEPT ![s] =
                      IF r.path = "refresh"
                      THEN [f EXCEPT !.pc = "refreshSent", !.nRefresh = 1]
                      ELSE Resume(f, r.tok, r.path)]

GetValidAccessToken(s) ==
    /\ CanBegin(s)
    /\ BeginGetValid(s, "call")
    /\ UNCHANGED <<now, issued, ctxToken, hookMounted, timer, intervals, uiVars>>
    /\ started' = started + 1

ApiRequest(s) ==
    /\ CanBegin(s)
    /\ BeginGetValid(s, "api")
    /\ UNCHANGED <<now, issued, ctxToken, hookMounted, timer, intervals, uiVars>>
    /\ started' = started + 1

AuthenticatedFetch(s) ==
    /\ CanBegin(s)
    /\ hookMounted
    /\ BeginGetValid(s, "fetch")
    /\ UNCHANGED <<now, issued, ctxToken, hookMounted, timer, intervals, uiVars>>
    /\ started' = started + 1

\* getProfile(token!), getUserSessions(token!), ...: the caller passes the
\* context's token; no call to getValidAccessToken.
ServiceRequest(s) ==
    /\ CanBegin(s)
    /\ Truthy(ctxToken)
    /\ flow' = [Cleared(flow) EXCEPT ![s] =
                  [Idle EXCEPT !.kind = "svc", !.pc = "httpSent", !.sent = TRUE,
                               !.bearer = ctxToken]]
    /\ UNCHANGED <<ls, now, issued, ctxToken, hookMounted, timer, intervals, uiVars>>
    /\ started' = started + 1

(***************************************************************************)
(* The backend's refresh endpoint (POST /auth/token/refresh/): it answers  *)
(* {access, access_expires_at}, stamped with its own clock, or the         *)
(* exchange fails (a non-OK status, a network error).                      *)
(***************************************************************************)
ServerRefreshOk(s) ==
    /\ flow[s].pc = "refreshSent"
    /\ issued' = issued + 1
    /\ flow' = [flow EXCEPT ![s].pc = "refreshAnswered",
                            ![s].resp = [ok |-> TRUE,
                                         access |-> AccessName(issued + 1),
                                         exp |-> IsoString(now + AccessLifetime)]]
    /\ UNCHANGED <<ls, now, ctxToken, hookMounted, timer, intervals, started, uiVars>>

ServerRefreshFail(s) ==
    /\ flow[s].pc = "refreshSent"
    /\ flow' = [flow EXCEPT ![s].pc = "refreshAnswered", ![s].resp = NoResp]
    /\ UNCHANGED <<ls, now, issued, ctxToken, hookMounted, timer, intervals, started, uiVars>>

\* The hook's effect (part_003 lines 12-35): an interval exists exactly when
\* the hook is mounted with a token and isAuthenticated.
CtxIsAuthenticated(token) == Truthy(token)

EffectTimer(mounted, token) == mounted /\ Truthy(token) /\ CtxIsAuthenticated(token)

\* Variant: the effect's cleanup does not clear its interval.
Cleanup_NoClear(n, had) == n

\* The cleanup of an effect run (line 34): clearInterval of the interval that
\* run created, if it created one.
Cleanup(n, had) == IF had THEN n - 1 ELSE n

\* The effect runs again (a dependency changed, or the hook mounts or
\* unmounts): the cleanup of the previous run, then line 14 and line 32.
EffectRerun(n, had, has) == IF has THEN Cleanup(n, had) + 1 ELSE Cleanup(n, had)

\* `await this.refreshToken(refreshToken)` settles in getValidAccessToken
\* (lines 414-427); the caller's continuation follows.
RefreshReturns(s) ==
    /\ s \in UserSlots
    /\ flow[s].pc = "refreshAnswered"
    /\ LET f == flow[s]
       IN  IF f.resp.ok
           THEN /\ ls' = RefreshStored(ls, f.rt, f.resp)
                /\ flow' = [flow EXCEPT ![s] = Resume(f, f.resp.access, "refreshed")]
           ELSE /\ ls' = RefreshFailed(ls)
                /\ flow' = [flow EXCEPT ![s] = Resume(f, Null, "failed")]
    /\ UNCHANGED <<now, issued, ctxToken, hookMounted, timer, intervals, started, uiVars>>

(***************************************************************************)
(* Responses to the authenticated requests.                                *)
(***************************************************************************)
Statuses == {200, 401, 500}

\* Variant: a failure other than 401 is answered by sending the request again.
ApiHandleResponse_RetryOnError(f, st, status) ==
    IF status = 401
    THEN [st |-> RemoveUser(RemoveTokens(st)),
          f |-> [f EXCEPT !.pc = "done", !.status = status,
                          !.nav = TRUE, !.outcome = "rejected"]]
    ELSE IF status = 200
    THEN [st |-> st,
          f |-> [f EXCEPT !.pc = "done", !.status = status, !.outcome = "resolved"]]
    ELSE [st |-> st, f |-> [f EXCEPT !.pc = "httpSent", !.status = status]]

\* ApiClient.handleResponse (part_002 lines 26-43).
ApiHandleResponse(f, st, status) ==
    IF status = 401
    THEN [st |-> RemoveUser(RemoveTokens(st)),
          f |-> [f EXCEPT !.pc = "done", !.status = status,
                          !.nav = TRUE, !.outcome = "rejected"]]
    ELSE [st |-> st,
          f |-> [f EXCEPT !.pc = "done", !.status = status,
                          !.outcome = IF status = 200 THEN "resolved" ELSE "rejected"]]

\* AuthService.handleResponse (auth.ts lines 132-139) and the callers' catch
\* blocks, which only show a toast.
ServiceHandleResponse(f, st, status) ==
    [st |-> st,
     f |-> [f EXCEPT !.pc = "done", !.status = status,
                     !.outcome = IF status = 200 THEN "resolved" ELSE "rejected"]]

\* Variant: authenticatedFetch logs out on every response that is not OK.
FetchHandleResponse_LogoutOnAnyError(f, st, status) ==
    IF status # 200
    THEN [st |-> st, f |-> [f EXCEPT !.pc = "logout", !.status = status]]
    ELSE [st |-> st,
          f |-> [f EXCEPT !.pc = "done", !.status = status, !.outcome = "resolved"]]

\* authenticatedFetch after its fetch (part_003 lines 58-65).
FetchHandleResponse(f, st, status) ==
    IF status = 401
    THEN [st |-> st, f |-> [f EXCEPT !.pc = "logout", !.status = status]]
    ELSE [st |-> st,
          f |-> [f EXCEPT !.pc = "done", !.status = status, !.outcome = "resolved"]]

HttpReturns(s, status) ==
    /\ s \in UserSlots
    /\ flow[s].pc = "httpSent"
    /\ LET f == flow[s]
           r == CASE f.kind = "api" -> ApiHandleResponse(f, ls, status)
                  [] f.kind = "svc" -> ServiceHandleResponse(f, ls, status)
                  [] f.kind = "fetch" -> FetchHandleResponse(f, ls, status)
       IN  /\ ls' = r.st
           /\ flow' = [flow EXCEPT ![s] = r.f]
    /\ UNCHANGED <<now, issued, ctxToken, hookMounted, timer, intervals, started, uiVars>>

\* `await fetch(...)` rejects (the network is down): no response reaches
\* handleResponse, and the operation rejects with fetch's error.
HttpFails(s) ==
    /\ s \in UserSlots
    /\ flow[s].pc = "httpSent"
    /\ flow' = [flow EXCEPT ![s].pc = "done", ![s].outcome = "rejected"]
    /\ UNCHANGED <<ls, now, issued, ctxToken, hookMounted, timer, intervals, started, uiVars>>

(***************************************************************************)
(* AuthContext, modelled from the specification: login creates the         *)
(* credential pair, logout destroys it, refreshAccessToken attempts the    *)
(* refresh exchange and reports success.                                   *)
(***************************************************************************)
LogoutEffect(st) == RemoveUser(RemoveTokens(st))

\* refreshAccessToken sends a refresh request when a refresh token is stored,
\* and reports false otherwise.
RefreshAccessTokenSends(st) == Truthy(st[RefreshKey])

\* refreshAccessToken on success: "the same refresh path" as
\* getValidAccessToken, the new token also becoming the context's token.
RefreshAccessTokenStored(st, refreshToken, resp) == RefreshStored(st, refreshToken, resp)

Login ==
    /\ started < MaxStarted
    /\ ~Truthy(ctxToken)
    /\ started' = started + 1
    /\ issued' = issued + 1
    /\ ls' = StoreUser(StoreTokens(ls, AccessName(issued + 1), RefreshName(issued + 1),
                                   IsoString(now + AccessLifetime),
                                   IsoString(now + RefreshLifetime)))
    /\ ctxToken' = AccessName(issued + 1)
    /\ timer' = EffectTimer(hookMounted, ctxToken')
    /\ intervals' = EffectRerun(intervals, timer, timer')
    /\ flow' = Cleared(flow)
    /\ UNCHANGED <<now, hookMounted, uiVars>>

\* The user's own logout.
Logout ==
    /\ Truthy(ctxToken)
    /\ ls' = LogoutEffect(ls)
    /\ ctxToken' = Null
    /\ timer' = EffectTimer(hookMounted, ctxToken')
    /\ intervals' = EffectRerun(intervals, timer, timer')
    /\ UNCHANGED <<now, issued, flow, hookMounted, started, uiVars>>

\* `await logout(); navigate('/')` in authenticatedFetch (lines 42-44, 60-62)
\* and in checkAndRefreshToken (lines 21-22, 26-27).
AfterLogout(f) ==
    IF f.kind = "fetch"
    THEN [f EXCEPT !.pc = "done", !.out = TRUE, !.nav = TRUE, !.outcome = "rejected",
                   !.err = IF f.status = 401 THEN "Authentication failed"
                                             ELSE "Authentication required"]
    ELSE [f EXCEPT !.pc = "done", !.out = TRUE, !.nav = TRUE, !.outcome = "resolved"]

LogoutReturns(s) ==
    /\ flow[s].pc = "logout"
    /\ ls' = LogoutEffect(ls)
    /\ ctxToken' = Null
    /\ timer' = EffectTimer(hookMounted, ctxToken')
    /\ intervals' = EffectRerun(intervals, timer, timer')
    /\ flow' = [flow EXCEPT ![s] = AfterLogout(flow[s])]
    /\ UNCHANGED <<now, issued, hookMounted, started, uiVars>>

(***************************************************************************)
(* useAuthInterceptor: mounting, the interval, checkAndRefreshToken.       *)
(***************************************************************************)
Mount ==
    /\ ~hookMounted
    /\ hookMounted' = TRUE
    /\ timer' = EffectTimer(TRUE, ctxToken)
    /\ intervals' = EffectRerun(intervals, timer, timer')
    /\ UNCHANGED <<ls, now, issued, flow, ctxToken, started, uiVars>>

\* The check of slot "bg" is pending.
CheckPending == flow["bg"].pc \notin {"idle", "done"}

\* Variant: the cleanup does not clear the interval.
Unmount_KeepsTimer ==
    /\ hookMounted
    /\ hookMounted' = FALSE
    /\ timer' = timer
    /\ intervals' = intervals
    /\ flow' = [flow EXCEPT !["bg"].torn = @ \/ CheckPending]
    /\ UNCHANGED <<ls, now, issued, ctxToken, started, uiVars>>

\* The effect's cleanup: clearInterval(interval).  Nothing cancels a check
\* that is pending; the model notes that the cleanup ran during it.
Unmount ==
    /\ hookMounted
    /\ hookMounted' = FALSE
    /\ timer' = FALSE
    /\ intervals' = EffectRerun(intervals, timer, timer')
    /\ flow' = [flow EXCEPT !["bg"].torn = @ \/ CheckPending]
    /\ UNCHANGED <<ls, now, issued, ctxToken, started, uiVars>>

\* Variant: a failed refresh is ignored by the check.
CheckAfterRefresh_IgnoreFailure(f, success) ==
    [f EXCEPT !.pc = "done", !.outcome = "resolved"]

\* Variant: the check logs out whatever refreshAccessToken reported.
CheckAfterRefresh_AlwaysLogout(f, success) == [f EXCEPT !.pc = "logout"]

\* What checkAndRefreshToken does once refreshAccessToken has settled with
\* `success` (a rejection is handled like false: lines 19-28).
CheckAfterRefresh(f, success) ==
    IF success
    THEN [f EXCEPT !.pc = "done", !.outcome = "resolved"]
    ELSE [f EXCEPT !.pc = "logout"]

\* One tick of the interval: checkAndRefreshToken starts.  A tick that comes
\* while the previous check is still pending is not modelled.
TimerFires ==
    /\ timer
    /\ Free("bg")
    /\ started < MaxStarted
    /\ LET f == [Idle EXCEPT !.kind = "check", !.rt = ls[RefreshKey],
                             !.rx = ls[RefreshExpKey]]
       IN  flow' = [Cleared(flow) EXCEPT !["bg"] =
                      IF RefreshAccessTokenSends(ls)
                      THEN [f EXCEPT !.pc = "refreshSent", !.nRefresh = 1]
                      ELSE CheckAfterRefresh([f EXCEPT !.path = "missing"], FALSE)]
    /\ UNCHANGED <<ls, now, issued, ctxToken, hookMounted, timer, intervals, uiVars>>
    /\ started' = started + 1

\* refreshAccessToken settles inside the check.
CheckRefreshReturns ==
    /\ flow["bg"].pc = "refreshAnswered"
    /\ LET f == flow["bg"]
       IN  IF f.resp.ok
           THEN /\ ls' = RefreshAccessTokenStored(ls, f.rt, f.resp)
                /\ ctxToken' = f.resp.access
                /\ flow' = [flow EXCEPT !["bg"] =
                              CheckAfterRefresh([f EXCEPT !.tok = f.resp.access,
                                                          !.path = "refreshed"], TRUE)]
           ELSE /\ ls' = ls
                /\ ctxToken' = ctxToken
                /\ flow' = [flow EXCEPT !["bg"] =
                              CheckAfterRefresh([f EXCEPT !.path = "failed"], FALSE)]
    /\ timer' = EffectTimer(hookMounted, ctxToken')
    /\ intervals' = EffectRerun(intervals, timer, timer')
    /\ UNCHANGED <<now, issued, hookMounted, started, uiVars>>

(***************************************************************************)
(* The legacy methods and the clock.                                       *)
(***************************************************************************)
LegacyStoreToken ==
    /\ started < MaxStarted
    /\ ls' = StoreToken(ls, LegacyToken)
    /\ flow' = Cleared(flow)
    /\ UNCHANGED <<now, issued, ctxToken, hookMounted, timer, intervals, uiVars>>
    /\ started' = started + 1

\* removeToken() is removeTokens() (auth.ts lines 446-448).
LegacyRemoveToken ==
    /\ started < MaxStarted
    /\ ls' = RemoveTokens(ls)
    /\ flow' = Cleared(flow)
    /\ UNCHANGED <<now, issued, ctxToken, hookMounted, timer, intervals, uiVars>>
    /\ started' = started + 1

Tick ==
    /\ now < MaxTime
    /\ now' = now + 1
    /\ UNCHANGED <<ls, issued, flow, ctxToken, hookMounted, timer, intervals, started, uiVars>>

(***************************************************************************)
(* The pages' forms (ProfileManagement, ComponentManagement,               *)
(* MileageManagement): client-side validation before the service call.     *)
(***************************************************************************)
MaxSubmits == 2

\* A property of a form object that was never set.
Undefined == "<undefined>"

\* JavaScript truthiness of `string | undefined | null`.
JsTruthy(v) == v # Undefined /\ v # Null /\ v # ""

\* a || b
Or(a, b) == IF JsTruthy(a) THEN a ELSE b

PasswordForms ==
    [page : {"password"}, old_password : {"", "old"},
     new_password : {"", "p1", "p2"}, new_password_confirm : {"", "p1", "p2"}]

ComponentForms ==
    [page : {"component"}, component_id : {Undefined, "", "C-1"},
     component_type : {Undefined, "brake"}, trainset : {Undefined, "ts1"}]

MileageForms ==
    [page : {"mileage"}, trainset : {Undefined, "ts1"}, date : {Undefined, "", "d1"},
     starting_mileage : {Undefined, "", "100"}, ending_mileage : {Undefined, "", "150"}]

Forms == PasswordForms \cup ComponentForms \cup MileageForms

\* The form states the pages start from (useState initial values, and the
\* resets after a successful submit).
EmptyPasswordData ==
    [page |-> "password", old_password |-> "", new_password |-> "",
     new_password_confirm |-> ""]

EmptyComponent ==
    [page |-> "component", component_id |-> Undefined, component_type |-> Undefined,
     trainset |-> Undefined]

EmptyMileageLog ==
    [page |-> "mileage", trainset |-> Undefined, date |-> Undefined,
     starting_mileage |-> Undefined, ending_mileage |-> Undefined]

NoToast == [title |-> "none", description |-> "none"]

Toast(title, description) == [title |-> title, description |-> description]

\* The message of an error a service call rejected with, as the catch block
\* reads it (error.message).
ServiceErrorTexts == {"error text", "HTTP error! status: 500"}

\* handleChangePassword, line 123.
PasswordFieldsMissing(f) ==
    ~JsTruthy(f.old_password) \/ ~JsTruthy(f.new_password)
        \/ ~JsTruthy(f.new_password_confirm)

\* Variant: the comparison of the two new passwords left out.
PasswordsDiffer_Never(f) == FALSE

\* handleChangePassword, line 132.
PasswordsDiffer(f) == f.new_password # f.new_password_confirm

\* handleCreateComponent, line 92.
ComponentFieldsMissing(f) ==
    ~JsTruthy(f.component_id) \/ ~JsTruthy(f.component_type) \/ ~JsTruthy(f.trainset)

\* handleCreateMileageLog, line 70.
MileageFieldsMissing(f) ==
    ~JsTruthy(f.trainset) \/ ~JsTruthy(f.date) \/ ~JsTruthy(f.starting_mileage)
        \/ ~JsTruthy(f.ending_mileage)

\* A handler starts: one more invocation, no service call awaited.
CanSubmit(page) == form.page = page /\ pending = "none" /\ submits < MaxSubmits

HandleChangePassword ==
    /\ CanSubmit("password")
    /\ submits' = submits + 1
    /\ IF PasswordFieldsMissing(form)
       THEN /\ toast' = Toast("Validation Error", "Please fill in all password fields")
            /\ UNCHANGED <<netCalls, pending>>
       ELSE IF PasswordsDiffer(form)
       THEN /\ toast' = Toast("Validation Error", "New passwords do not match")
            /\ UNCHANGED <<netCalls, pending>>
       ELSE /\ netCalls' = netCalls + 1
            /\ pending' = "changePassword"
            /\ toast' = toast
    /\ UNCHANGED <<form, handled>>
    /\ UNCHANGED <<ls, now, issued, flow, ctxToken, hookMounted, timer, intervals, started, smVars>>

HandleCreateComponent ==
    /\ CanSubmit("component")
    /\ submits' = submits + 1
    /\ IF ComponentFieldsMissing(form)
       THEN /\ toast' = Toast("Validation Error", "Please fill in all required fields")
            /\ UNCHANGED <<netCalls, pending>>
       ELSE /\ netCalls' = netCalls + 1
            /\ pending' = "createComponent"
            /\ toast' = toast
    /\ UNCHANGED <<form, handled>>
    /\ UNCHANGED <<ls, now, issued, flow, ctxToken, hookMounted, timer, intervals, started, smVars>>

HandleCreateMileageLog ==
    /\ CanSubmit("mileage")
    /\ submits' = submits + 1
    /\ IF MileageFieldsMissing(form)
       THEN /\ toast' = Toast("Validation Error", "Please fill in all required fields")
            /\ UNCHANGED <<netCalls, pending>>
       ELSE /\ netCalls' = netCalls + 1
            /\ pending' = "createMileageLog"
            /\ toast' = toast
    /\ UNCHANGED <<form, handled>>
    /\ UNCHANGED <<ls, now, issued, flow, ctxToken, hookMounted, timer, intervals, started, smVars>>

\* The awaited service call resolves: the success toast, the form reset.
ServiceCallResolves ==
    /\ pending # "none"
    /\ pending' = "none"
    /\ CASE pending = "changePassword" ->
              /\ toast' = Toast("Success", "Password changed successfully")
              /\ form' = EmptyPasswordData
         [] pending = "createComponent" ->
              /\ toast' = Toast("Success", "Component created successfully")
              /\ form' = EmptyComponent
         [] pending = "createMileageLog" ->
              /\ toast' = Toast("Success", "Mileage log created successfully")
              /\ form' = EmptyMileageLog
    /\ UNCHANGED <<netCalls, submits, handled>>
    /\ UNCHANGED <<ls, now, issued, flow, ctxToken, hookMounted, timer, intervals, started, smVars>>

\* The awaited service call rejects: the catch block's toast.
ServiceCallRejects(text) ==
    /\ pending # "none"
    /\ pending' = "none"
    /\ toast' = Toast(CASE pending = "changePassword" -> "Error Changing Password"
                        [] pending = "createComponent" -> "Error Creating Component"
                        [] pending = "createMileageLog" -> "Error Creating Mileage Log",
                      text)
    /\ UNCHANGED <<form, netCalls, submits, handled>>
    /\ UNCHANGED <<ls, now, issued, flow, ctxToken, hookMounted, timer, intervals, started, smVars>>

(***************************************************************************)
(* Non-OK responses: what handleResponse of AuthService (auth.ts lines     *)
(* 132-139) and of ApiClient (part_002 lines 26-43), and authenticatedFetch*)
(* (part_003 lines 58-65), hand to their callers.                          *)
(***************************************************************************)
ResponseStatuses == {200, 400, 401, 500}

\* response.ok
ResponseOk(status) == status >= 200 /\ status <= 299

\* Response bodies: text that is not JSON, the JSON value null, or a JSON
\* object whose error, message and detail are absent, empty or a text.
Bodies ==
    [json : {"unparseable", "null"},
     error : {Undefined}, message : {Undefined}, detail : {Undefined}]
    \cup
    [json : {"object"},
     error : {Undefined, "", "error text"},
     message : {Undefined, "", "message text"},
     detail : {Undefined, "", "detail text"}]

\* await response.json().catch(() => ({}))
ErrorData(body) ==
    IF body.json = "unparseable"
    THEN [json |-> "object", error |-> Undefined, message |-> Undefined,
          detail |-> Undefined]
    ELSE body

HttpErrorText(status) == "HTTP error! status: " \o ToString(status)

\* Reading a property of null throws a TypeError with this message.
NullReadText == "Cannot read properties of null (reading 'error')"

\* errorData.error || errorData.message || errorData.detail || `HTTP error! ...`
ExtractedMessage(errorData, status) ==
    IF errorData.json = "null"
    THEN NullReadText
    ELSE Or(errorData.error, Or(errorData.message, Or(errorData.detail,
                                                         HttpErrorText(status))))

NoHandled ==
    [handler |-> "none", status |-> 0,
     body |-> [json |-> "unparseable", error |-> Undefined, message |-> Undefined,
               detail |-> Undefined],
     outcome |-> "none", message |-> "none"]

Handled(handler, status, body, outcome, message) ==
    [handler |-> handler, status |-> status, body |-> body, outcome |-> outcome,
     message |-> message]

\* AuthService.handleResponse.
AuthServiceHandleResponse(status, body) ==
    IF ~ResponseOk(status)
    THEN Handled("AuthService", status, body, "rejected",
                 ExtractedMessage(ErrorData(body), status))
    ELSE Handled("AuthService", status, body, "resolved", "none")

\* ApiClient.handleResponse; the purge of the 401 branch is ApiHandleResponse.
ApiClientHandleResponse(status, body) ==
    IF ~ResponseOk(status)
    THEN IF status = 401
         THEN Handled("ApiClient", status, body, "rejected",
                      "Authentication required. Please login again.")
         ELSE Handled("ApiClient", status, body, "rejected",
                      ExtractedMessage(ErrorData(body), status))
    ELSE Handled("ApiClient", status, body, "resolved", "none")

\* authenticatedFetch: only a 401 is turned into an error; any other response
\* is returned to the caller.
AuthenticatedFetchResponse(status, body) ==
    IF status = 401
    THEN Handled("authenticatedFetch", status, body, "rejected", "Authentication failed")
    ELSE Handled("authenticatedFetch", status, body, "resolved", "none")

HandleResponse(handler, status, body) ==
    /\ pending = "none"
    /\ handled = NoHandled
    /\ handled' = CASE handler = "AuthService" -> AuthServiceHandleResponse(status, body)
                    [] handler = "ApiClient" -> ApiClientHandleResponse(status, body)
                    [] handler = "authenticatedFetch" ->
                         AuthenticatedFetchResponse(status, body)
    /\ UNCHANGED <<form, toast, netCalls, pending, submits>>
    /\ UNCHANGED <<ls, now, issued, flow, ctxToken, hookMounted, timer, intervals, started, smVars>>

Handlers == {"AuthService", "ApiClient", "authenticatedFetch"}

(***************************************************************************)
(* SessionManager (src/src/components/session/SessionManager.tsx): the     *)
(* list of the user's sessions, its reloads and the two terminations.      *)
(* `loads` and `terms` hold the loadSessions calls and the terminations in *)
(* flight, in order of their start: a call is "sent" until the backend has *)
(* answered it and "answered" until the continuation after its await has   *)
(* run, which removes it.                                                  *)
(***************************************************************************)
MaxLoads == 2      \* loads the user starts: opening the dialog, Refresh
MaxTerms == 1      \* terminations the user starts
MaxSeconds == 7300 \* time_remaining_seconds ranges over -MaxSeconds..MaxSeconds

CurrentId == "cur"
RemoteIds == {"r1", "r2"}
SessionIds == {CurrentId} \cup RemoteIds

\* A session as the backend lists it: is_current marks the caller's own.
SessionRow(id) == [id |-> id, is_current |-> (id = CurrentId)]

\* The body of GET /api/auth/sessions/ for the sessions alive on the backend.
SessionsResponse(alive) ==
    [hasSessions |-> TRUE, sessions |-> {SessionRow(id) : id \in alive}]

\* A body without a sessions field: response.sessions is undefined.
NoSessionsField == [hasSessions |-> FALSE, sessions |-> {}]

\* response.sessions || []
SessionsOf(response) ==
    IF response.hasSessions THEN response.sessions ELSE {}

RemoveAt(seq, i) == SubSeq(seq, 1, i - 1) \o SubSeq(seq, i + 1, Len(seq))

\* loadSessions up to its await: setLoading(true) and the request.  `after`
\* records how many terminations had succeeded when the call started.
LoadSessions(by, succeeded) ==
    /\ loading' = TRUE
    /\ loads' = Append(loads, [pc |-> "sent", by |-> by, ok |-> FALSE,
                               response |-> NoSessionsField, after |-> succeeded])

\* The dialog trigger: setShowSessionDialog(true); the effect then calls
\* loadSessions when a token is present.
OpenDialog ==
    /\ ~showSessionDialog
    /\ tally.userLoads < MaxLoads
    /\ showSessionDialog' = TRUE
    /\ IF Truthy(ctxToken)
          THEN /\ LoadSessions("effect", tally.succeeded)
               /\ tally' = [tally EXCEPT !.userLoads = @ + 1]
          ELSE UNCHANGED <<loading, loads, tally>>
    /\ UNCHANGED <<sessions, srvSessions, terms, callbacks, shownAfter, rendered>>
    /\ UNCHANGED <<ls, now, issued, flow, ctxToken, hookMounted, timer, intervals, started>>
    /\ UNCHANGED <<form, toast, netCalls, pending, submits, handled>>

\* Closing the dialog: the effect re-runs with showSessionDialog false and
\* does nothing; calls in flight are not cancelled.
CloseDialog ==
    /\ showSessionDialog
    /\ showSessionDialog' = FALSE
    /\ UNCHANGED <<sessions, loading, srvSessions, loads, terms, callbacks, shownAfter,
                   tally, rendered>>
    /\ UNCHANGED <<ls, now, issued, flow, ctxToken, hookMounted, timer, intervals, started>>
    /\ UNCHANGED <<form, toast, netCalls, pending, submits, handled>>

\* The Refresh button: disabled while loading.
RefreshDisabled == loading

ClickRefresh ==
    /\ showSessionDialog
    /\ ~RefreshDisabled
    /\ tally.userLoads < MaxLoads
    /\ LoadSessions("refresh", tally.succeeded)
    /\ tally' = [tally EXCEPT !.userLoads = @ + 1]
    /\ UNCHANGED <<showSessionDialog, sessions, srvSessions, terms, callbacks, shownAfter,
                   rendered>>
    /\ UNCHANGED <<ls, now, issued, flow, ctxToken, hookMounted, timer, intervals, started>>
    /\ UNCHANGED <<form, toast, netCalls, pending, submits, handled>>

LoadOutcomes == {"ok", "nofield", "fail"}

\* The backend answers a load with the sessions alive at that moment, with a
\* body that has no sessions field, or with a failure.  A request sent
\* without a token can only fail.
ServerAnswersLoad(i, outcome) ==
    /\ i \in DOMAIN loads
    /\ loads[i].pc = "sent"
    /\ outcome # "fail" => Truthy(ctxToken)
    /\ loads' = [loads EXCEPT ![i] =
                   [@ EXCEPT !.pc = "answered",
                             !.ok = (outcome # "fail"),
                             !.response = IF outcome = "ok"
                                             THEN SessionsResponse(srvSessions)
                                             ELSE NoSessionsField]]
    /\ UNCHANGED <<showSessionDialog, sessions, loading, srvSessions, terms, callbacks,
                   shownAfter, tally, rendered>>
    /\ UNCHANGED <<ls, now, issued, flow, ctxToken, hookMounted, timer, intervals, started>>
    /\ UNCHANGED <<form, toast, netCalls, pending, submits, handled>>

\* loadSessions after its await: setSessions(response.sessions || []) or the
\* error toast, then setLoading(false) in the finally block.
LoadReturns(i) ==
    /\ i \in DOMAIN loads
    /\ loads[i].pc = "answered"
    /\ loads' = RemoveAt(loads, i)
    /\ IF loads[i].ok
          THEN /\ sessions' = SessionsOf(loads[i].response)
               /\ shownAfter' = loads[i].after
               /\ UNCHANGED <<toast, tally>>
          ELSE /\ toast' = Toast("Error Loading Sessions", "error.message")
               /\ tally' = [tally EXCEPT !.loadFailed = TRUE]
               /\ UNCHANGED <<sessions, shownAfter>>
    /\ loading' = FALSE
    /\ UNCHANGED <<showSessionDialog, srvSessions, terms, callbacks, rendered>>
    /\ UNCHANGED <<ls, now, issued, flow, ctxToken, hookMounted, timer, intervals, started>>
    /\ UNCHANGED <<form, netCalls, pending, submits, handled>>

TerminateRendered_Always(session) == TRUE

\* The per-session Terminate button is rendered for a row that is not the
\* current session.
TerminateRendered(session) == ~session.is_current

\* The rows are rendered when the dialog is open and the list is not replaced
\* by the spinner.
RowsRendered == showSessionDialog /\ ~loading

AllOthersDisabled_Never(list) == FALSE

\* The Terminate All Others button: disabled while the list has no row that
\* is not current.
AllOthersDisabled(list) == Cardinality({s \in list : ~s.is_current}) = 0

\* The body authService.terminateSession posts.  terminate_all_others is
\* JsTrue or, when the argument was left out, Undefined.
JsTrue == "true"

TerminateBody(sessionId, terminateAllOthers) ==
    [session_id |-> sessionId, terminate_all_others |-> terminateAllOthers]

\* terminateSession(session.id) up to its await.  `row` keeps the row whose
\* button was clicked, `shown` the list displayed at the click.
TerminateSession(session) ==
    /\ RowsRendered
    /\ session \in sessions
    /\ TerminateRendered(session)
    /\ tally.terms < MaxTerms
    /\ terms' = Append(terms, [pc |-> "sent", ok |-> FALSE, row |-> session,
                               shown |-> sessions,
                               body |-> TerminateBody(session.id, Undefined)])
    /\ tally' = [tally EXCEPT !.terms = @ + 1]
    /\ UNCHANGED <<showSessionDialog, sessions, loading, srvSessions, loads, callbacks,
                   shownAfter, rendered>>
    /\ UNCHANGED <<ls, now, issued, flow, ctxToken, hookMounted, timer, intervals, started>>
    /\ UNCHANGED <<form, toast, netCalls, pending, submits, handled>>

NoRow == [id |-> "", is_current |-> FALSE]

\* terminateAllOtherSessions up to its await.
TerminateAllOtherSessions ==
    /\ showSessionDialog
    /\ ~AllOthersDisabled(sessions)
    /\ tally.terms < MaxTerms
    /\ terms' = Append(terms, [pc |-> "sent", ok |-> FALSE, row |-> NoRow,
                               shown |-> sessions,
                               body |-> TerminateBody("", JsTrue)])
    /\ tally' = [tally EXCEPT !.terms = @ + 1]
    /\ UNCHANGED <<showSessionDialog, sessions, loading, srvSessions, loads, callbacks,
                   shownAfter, rendered>>
    /\ UNCHANGED <<ls, now, issued, flow, ctxToken, hookMounted, timer, intervals, started>>
    /\ UNCHANGED <<form, toast, netCalls, pending, submits, handled>>

\* What a successful termination leaves alive on the backend.
AliveAfter(alive, body) ==
    IF body.terminate_all_others = JsTrue
       THEN alive \cap {CurrentId}
       ELSE alive \ {body.session_id}

\* The backend answers a termination: it ends the sessions asked for, or it
\* fails and ends none.
ServerAnswersTerminate(t, ok) ==
    /\ t \in DOMAIN terms
    /\ terms[t].pc = "sent"
    /\ terms' = [terms EXCEPT ![t] = [@ EXCEPT !.pc = "answered", !.ok = ok]]
    /\ srvSessions' = IF ok THEN AliveAfter(srvSessions, terms[t].body) ELSE srvSessions
    /\ UNCHANGED <<showSessionDialog, sessions, loading, loads, callbacks, shownAfter,
                   tally, rendered>>
    /\ UNCHANGED <<ls, now, issued, flow, ctxToken, hookMounted, timer, intervals, started>>
    /\ UNCHANGED <<form, toast, netCalls, pending, submits, handled>>

Invoke_BeforeReload(cb, inFlight) ==
    IF ~cb.supplied
       THEN cb
       ELSE [cb EXCEPT !.calls = @ + 1, !.saw = inFlight - 1]

\* `if (onSessionTerminated) onSessionTerminated()`: nothing when the prop
\* was not supplied; else one more invocation, which finds inFlight
\* loadSessions calls in flight.
Invoke(cb, inFlight) ==
    IF ~cb.supplied
       THEN cb
       ELSE [cb EXCEPT !.calls = @ + 1, !.saw = inFlight]

TerminatedTitle(body) ==
    IF body.terminate_all_others = JsTrue THEN "Sessions Terminated" ELSE "Session Terminated"

TerminateErrorTitle(body) ==
    IF body.terminate_all_others = JsTrue
       THEN "Error Terminating Sessions"
       ELSE "Error Terminating Session"

\* terminateSession / terminateAllOtherSessions after the await: the success
\* toast, loadSessions() (not awaited), the callback; or the catch block's
\* toast alone.
TerminateReturns(t) ==
    /\ t \in DOMAIN terms
    /\ terms[t].pc = "answered"
    /\ terms' = RemoveAt(terms, t)
    /\ IF terms[t].ok
          THEN /\ toast' = Toast(TerminatedTitle(terms[t].body), "none")
               /\ tally' = [tally EXCEPT !.succeeded = @ + 1, !.loadFailed = FALSE]
               /\ LoadSessions("reload", tally.succeeded + 1)
               /\ callbacks' = Invoke(callbacks, Len(loads'))
          ELSE /\ toast' = Toast(TerminateErrorTitle(terms[t].body), "error.message")
               /\ UNCHANGED <<loading, loads, callbacks, tally>>
    /\ UNCHANGED <<showSessionDialog, sessions, srvSessions, shownAfter, rendered>>
    /\ UNCHANGED <<ls, now, issued, flow, ctxToken, hookMounted, timer, intervals, started>>
    /\ UNCHANGED <<form, netCalls, pending, submits, handled>>

(***************************************************************************)
(* formatTimeRemaining and the progress bar of a session row               *)
(* (SessionManager.tsx).  Math.floor of a quotient of non-negative         *)
(* integers is \div; the progress value is a fraction, kept here as a      *)
(* numerator over ProgressDen.                                             *)
(***************************************************************************)
MinutesOf_NoModulo(seconds) == seconds \div 60

HoursOf(seconds) == seconds \div 3600

MinutesOf(seconds) == (seconds % 3600) \div 60

FormatTimeRemaining(seconds) ==
    IF seconds <= 0 THEN "Expired"
    ELSE IF HoursOf(seconds) > 0
            THEN ToString(HoursOf(seconds)) \o "h " \o ToString(MinutesOf(seconds)) \o "m"
            ELSE ToString(MinutesOf(seconds)) \o "m"

ProgressDen == 36

Max(a, b) == IF a >= b THEN a ELSE b

Min(a, b) == IF a <= b THEN a ELSE b

ProgressValue_NoUpperClamp(seconds) == Max(0, seconds)

\* Math.max(0, Math.min(100, (seconds / (60 * 60)) * 100)), times ProgressDen:
\* (seconds / 3600) * 100 is seconds / 36.
ProgressValue(seconds) == Max(0 * ProgressDen, Min(100 * ProgressDen, seconds))

TimeInputs == (0 - MaxSeconds)..MaxSeconds

NoRender == [seconds |-> 0, text |-> "", progress |-> 0]

\* A session row is rendered for a time_remaining_seconds value.
RenderSession(seconds) ==
    /\ rendered = NoRender
    /\ rendered' = [seconds |-> seconds,
                    text |-> FormatTimeRemaining(seconds),
                    progress |-> ProgressValue(seconds)]
    /\ UNCHANGED <<showSessionDialog, sessions, loading, srvSessions, loads, terms,
                   callbacks, shownAfter, tally>>
    /\ UNCHANGED <<ls, now, issued, flow, ctxToken, hookMounted, timer, intervals, started>>
    /\ UNCHANGED <<form, toast, netCalls, pending, submits, handled>>

NoTally == [userLoads |-> 0, terms |-> 0, succeeded |-> 0, loadFailed |-> FALSE]

\* The session variables before the component has done anything.
SessionsIdle ==
    /\ showSessionDialog = FALSE
    /\ sessions = {}
    /\ loading = FALSE
    /\ srvSessions = SessionIds
    /\ loads = <<>>
    /\ terms = <<>>
    /\ callbacks = [supplied |-> TRUE, calls |-> 0, saw |-> 0]
    /\ shownAfter = 0
    /\ tally = NoTally
    /\ rendered = NoRender

(***************************************************************************)
(* The specification.                                                      *)
(***************************************************************************)
Init ==
    /\ ls = [k \in Keys |-> Null]
    /\ now = 0
    /\ issued = 0
    /\ flow = [s \in Slots |-> Idle]
    /\ ctxToken = Null
    /\ hookMounted = FALSE
    /\ timer = FALSE
    /\ intervals = 0
    /\ started = 0
    /\ form = EmptyPasswordData
    /\ toast = NoToast
    /\ netCalls = 0
    /\ pending = "none"
    /\ submits = 0
    /\ handled = NoHandled
    /\ SessionsIdle

Next ==
    \/ \E s \in UserSlots : GetValidAccessToken(s)
    \/ \E s \in UserSlots : ApiRequest(s)
    \/ \E s \in UserSlots : AuthenticatedFetch(s)
    \/ \E s \in UserSlots : ServiceRequest(s)
    \/ \E s \in Slots : ServerRefreshOk(s)
    \/ \E s \in Slots : ServerRefreshFail(s)
    \/ \E s \in UserSlots : RefreshReturns(s)
    \/ \E s \in UserSlots, status \in Statuses : HttpReturns(s, status)
    \/ \E s \in UserSlots : HttpFails(s)
    \/ \E s \in Slots : LogoutReturns(s)
    \/ Login
    \/ Logout
    \/ Mount
    \/ Unmount
    \/ TimerFires
    \/ CheckRefreshReturns
    \/ LegacyStoreToken
    \/ LegacyRemoveToken
    \/ Tick

Spec == Init /\ [][Next]_vars

\* The same system with the scheduling the browser gives: a refresh request
\* that was sent is answered or fails, and the continuation of a settled
\* `await` is run.
FairSpec ==
    /\ Spec
    /\ \A s \in Slots : WF_vars(ServerRefreshOk(s) \/ ServerRefreshFail(s))
    /\ \A s \in UserSlots : WF_vars(RefreshReturns(s))

(***************************************************************************)
(* The pages and the response handlers on their own: a page is open with   *)
(* its form in any state, its handler is invoked, the service call settles;*)
(* a response is given to one of the handlers.                             *)
(***************************************************************************)
UiInit ==
    /\ ls = [k \in Keys |-> Null]
    /\ now = 0
    /\ issued = 0
    /\ flow = [s \in Slots |-> Idle]
    /\ ctxToken = Null
    /\ hookMounted = FALSE
    /\ timer = FALSE
    /\ intervals = 0
    /\ started = 0
    /\ form \in Forms
    /\ toast = NoToast
    /\ netCalls = 0
    /\ pending = "none"
    /\ submits = 0
    /\ handled = NoHandled
    /\ SessionsIdle

UiNext ==
    \/ HandleChangePassword
    \/ HandleCreateComponent
    \/ HandleCreateMileageLog
    \/ ServiceCallResolves
    \/ \E text \in ServiceErrorTexts : ServiceCallRejects(text)
    \/ \E h \in Handlers, status \in ResponseStatuses, body \in Bodies :
          HandleResponse(h, status, body)

UiSpec == UiInit /\ [][UiNext]_vars

(***************************************************************************)
(* SessionManager on its own: a mounted component, with or without a token *)
(* and with or without the onSessionTerminated prop.                       *)
(***************************************************************************)
SessionInit ==
    /\ ls = [k \in Keys |-> Null]
    /\ now = 0
    /\ issued = 0
    /\ flow = [s \in Slots |-> Idle]
    /\ ctxToken \in {Null, AccessName(1)}
    /\ hookMounted = FALSE
    /\ timer = FALSE
    /\ intervals = 0
    /\ started = 0
    /\ form = EmptyPasswordData
    /\ toast = NoToast
    /\ netCalls = 0
    /\ pending = "none"
    /\ submits = 0
    /\ handled = NoHandled
    /\ showSessionDialog = FALSE
    /\ sessions = {}
    /\ loading = FALSE
    /\ srvSessions = SessionIds
    /\ loads = <<>>
    /\ terms = <<>>
    /\ callbacks \in {[supplied |-> b, calls |-> 0, saw |-> 0] : b \in BOOLEAN}
    /\ shownAfter = 0
    /\ tally = NoTally
    /\ rendered = NoRender

SessionNext ==
    \/ OpenDialog
    \/ CloseDialog
    \/ ClickRefresh
    \/ \E i \in DOMAIN loads, outcome \in LoadOutcomes : ServerAnswersLoad(i, outcome)
    \/ \E i \in DOMAIN loads : LoadReturns(i)
    \/ \E session \in sessions : TerminateSession(session)
    \/ TerminateAllOtherSessions
    \/ \E t \in DOMAIN terms, ok \in BOOLEAN : ServerAnswersTerminate(t, ok)
    \/ \E t \in DOMAIN terms : TerminateReturns(t)

SessionSpec == SessionInit /\ [][SessionNext]_vars

(***************************************************************************)
(* The rendering of one session row's remaining time, on its own.          *)
(***************************************************************************)
RenderNext == \E seconds \in TimeInputs : RenderSession(seconds)

RenderSpec == Init /\ [][RenderNext]_vars

(***************************************************************************)
(* Vocabulary of the properties.                                           *)
(***************************************************************************)
\* A credential pair is stored: both tokens and both expiry timestamps.
StoredPair(st) ==
    /\ Truthy(st[AccessKey]) /\ Truthy(st[RefreshKey])
    /\ IsDate(st[AccessExpKey]) /\ IsDate(st[RefreshExpKey])

Purged(st) == \A k \in TokenKeys : st[k] = Null

PurgedWithUser(st) == \A k \in Keys : st[k] = Null

\* The stored access token is past its expiry at time t.
AccessStale(st, t) ==
    Truthy(st[AccessKey]) /\ IsDate(st[AccessExpKey]) /\ t >= DateOf(st[AccessExpKey])

\* The stored access token is before its expiry at time t.
AccessFresh(st, t) ==
    Truthy(st[AccessKey]) /\ IsDate(st[AccessExpKey]) /\ t < DateOf(st[AccessExpKey])

\* The stored refresh token is past its expiry at time t.
RefreshStale(st, t) ==
    Truthy(st[RefreshKey]) /\ IsDate(st[RefreshExpKey]) /\ t >= DateOf(st[RefreshExpKey])

RefreshFresh(st, t) ==
    Truthy(st[RefreshKey]) /\ IsDate(st[RefreshExpKey]) /\ t < DateOf(st[RefreshExpKey])

\* This step is slot s calling getValidAccessToken (directly, from ApiClient
\* or from authenticatedFetch).
CallBegins(s) ==
    /\ Free(s)
    /\ started' = started + 1
    /\ flow'[s].kind \in {"call", "api", "fetch"}

\* This step is the refresh exchange of slot s settling in getValidAccessToken.
RefreshSettles(s) ==
    /\ s \in UserSlots
    /\ flow[s].pc = "refreshAnswered"
    /\ flow'[s].pc # "refreshAnswered"

\* In this step the getValidAccessToken call of slot s resolves.
CallResolves(s) ==
    /\ s \in UserSlots
    /\ \/ CallBegins(s) /\ flow'[s].pc # "refreshSent"
       \/ RefreshSettles(s)

(***************************************************************************)
(* C1: for every stored credential pair, isAuthenticated() is true exactly *)
(* when the current time is strictly before the stored refresh expiry; and *)
(* with no refresh token stored it is false.                               *)
(***************************************************************************)
C1_IsAuthenticatedIffRefreshUnexpired ==
    /\ StoredPair(ls) =>
         (IsAuthenticated(ls, now) <=> now < DateOf(ls[RefreshExpKey]))
    /\ ~Truthy(ls[RefreshKey]) => ~IsAuthenticated(ls, now)

\* A pair is stored and the clock stands exactly at the refresh expiry.
C1_Witness ==
    /\ StoredPair(ls)
    /\ now = DateOf(ls[RefreshExpKey])
    /\ ~IsAuthenticated(ls, now)

(***************************************************************************)
(* C2: whenever getValidAccessToken resolves to a non-null token, on the   *)
(* stored-token path or on the refreshed-token path, the access expiry     *)
(* stored for that token is strictly later than the time of resolution.    *)
(***************************************************************************)
C2_NeverResolvesExpired ==
    [][\A s \in UserSlots :
         (CallResolves(s) /\ Truthy(flow'[s].tok)) =>
            /\ IsDate(ls'[AccessExpKey])
            /\ now' < DateOf(ls'[AccessExpKey])]_vars

(***************************************************************************)
(* C3: with both tokens stored and the access token unexpired,             *)
(* getValidAccessToken returns the stored access token, sends no refresh   *)
(* request and leaves storage as it was.                                   *)
(***************************************************************************)
C3_FreshTokenNoRefresh ==
    [][\A s \in UserSlots :
         (CallBegins(s) /\ Truthy(ls[RefreshKey]) /\ AccessFresh(ls, now)) =>
            /\ flow'[s].path = "stored"
            /\ flow'[s].tok = ls[AccessKey]
            /\ flow'[s].nRefresh = 0
            /\ flow'[s].pc # "refreshSent"
            /\ ls' = ls]_vars

\* A bare call has returned the stored token without a refresh request.
C3_Witness ==
    \E s \in UserSlots :
        /\ flow[s].kind = "call" /\ flow[s].pc = "done"
        /\ flow[s].path = "stored"
        /\ flow[s].tok = ls[AccessKey]
        /\ flow[s].nRefresh = 0
        /\ AccessFresh(ls, now)

(***************************************************************************)
(* C4: with the access token expired and the refresh token valid, one      *)
(* getValidAccessToken call sends exactly one refresh request; when it     *)
(* succeeds the call returns the response's access token, the stored       *)
(* access token and access expiry are the response's, and the stored       *)
(* refresh token and refresh expiry are the same as before the call.       *)
(***************************************************************************)
C4_RefreshReplacesAccessKeepsRefresh ==
    [][\A s \in UserSlots :
         (RefreshSettles(s) /\ flow[s].resp.ok) =>
            /\ flow'[s].nRefresh = 1
            /\ flow'[s].tok = flow[s].resp.access
            /\ ls'[AccessKey] = flow[s].resp.access
            /\ ls'[AccessExpKey] = flow[s].resp.exp
            /\ ls'[RefreshKey] = flow[s].rt
            /\ ls'[RefreshExpKey] = flow[s].rx]_vars

(***************************************************************************)
(* C5 as stated: whenever the stored refresh token is expired,             *)
(* getValidAccessToken returns null and afterwards the four credential     *)
(* fields are absent.                                                      *)
(***************************************************************************)
C5_Original ==
    [][\A s \in UserSlots :
         (CallBegins(s) /\ RefreshStale(ls, now)) =>
            /\ flow'[s].path # "none"
            /\ flow'[s].tok = Null
            /\ Purged(ls')]_vars

(***************************************************************************)
(* C5 amended: whenever the stored access token is expired and the stored  *)
(* refresh token is expired, getValidAccessToken returns null and          *)
(* afterwards the four credential fields are absent.                       *)
(***************************************************************************)
C5_ExpiredRefreshPurges ==
    [][\A s \in UserSlots :
         (CallBegins(s) /\ AccessStale(ls, now) /\ RefreshStale(ls, now)) =>
            /\ flow'[s].path = "expired"
            /\ flow'[s].tok = Null
            /\ flow'[s].nRefresh = 0
            /\ Purged(ls')]_vars

\* A bare call found both tokens expired, returned null and purged.
C5_Witness ==
    \E s \in UserSlots :
        /\ flow[s].kind = "call" /\ flow[s].pc = "done"
        /\ flow[s].path = "expired"
        /\ flow[s].tok = Null
        /\ Truthy(flow[s].rt)
        /\ Purged(ls)

(***************************************************************************)
(* C6: when the access token is stale, the refresh token valid and the     *)
(* refresh exchange fails, getValidAccessToken sends no further refresh    *)
(* request, returns null and leaves the four credential fields and the     *)
(* cached user profile removed from storage.                               *)
(***************************************************************************)
C6_FailedRefreshPurges ==
    [][\A s \in UserSlots :
         (RefreshSettles(s) /\ ~flow[s].resp.ok) =>
            /\ flow'[s].path = "failed"
            /\ flow'[s].tok = Null
            /\ flow'[s].nRefresh = 1
            /\ flow'[s].pc # "refreshSent"
            /\ PurgedWithUser(ls')]_vars

\* A bare call whose only refresh exchange failed has returned null, while
\* the profile was still cached when the exchange failed.
C6_Witness ==
    \E s \in UserSlots :
        /\ flow[s].kind = "call" /\ flow[s].pc = "done"
        /\ flow[s].path = "failed"
        /\ flow[s].tok = Null
        /\ flow[s].nRefresh = 1
        /\ PurgedWithUser(ls)

(***************************************************************************)
(* C7: whenever an authenticated HTTP request (ApiClient, authenticatedFetch*)
(* or an AuthService method sent with a bearer token) receives a 401, the  *)
(* four credential fields and the cached user profile are absent from      *)
(* storage once the handling of that response completes.                   *)
(***************************************************************************)
C7_Any401Purges ==
    [][\A s \in UserSlots :
         (flow[s].pc # "done" /\ flow'[s].pc = "done" /\ flow'[s].status = 401) =>
            PurgedWithUser(ls')]_vars

(***************************************************************************)
(* C8: in every reachable state either all four of access token, refresh   *)
(* token, access expiry and refresh expiry are present or all four are     *)
(* absent, and no expiry field holds a value that is not a timestamp.      *)
(***************************************************************************)
C8_FourFieldsAtomic ==
    /\ \/ \A k \in TokenKeys : ls[k] # Null
       \/ \A k \in TokenKeys : ls[k] = Null
    /\ \A k \in {AccessExpKey, RefreshExpKey} : ls[k] # Null => IsDate(ls[k])

(***************************************************************************)
(* C9: when two getValidAccessToken calls run concurrently while the       *)
(* access token is stale and the refresh token is valid, both resolve to a *)
(* non-null, unexpired access token, and the stored pair afterwards is a   *)
(* stored access token with its own expiry and the original refresh token  *)
(* with its original expiry.  Stated at the step in which the second of    *)
(* the two calls resolves, for a second call whose own exchange succeeded. *)
(***************************************************************************)
OtherSlot(s) == IF s = "u1" THEN "u2" ELSE "u1"

C9_ConcurrentCallsBothValid ==
    [][\A s \in UserSlots :
         LET o == flow[OtherSlot(s)]
         IN  (/\ RefreshSettles(s) /\ flow[s].resp.ok
              /\ o.pc = "done" /\ o.path \in {"refreshed", "failed"}
              /\ o.rt = flow[s].rt /\ o.rx = flow[s].rx) =>
                /\ Truthy(o.tok)
                /\ Truthy(flow'[s].tok)
                /\ now' < DateOf(flow[s].resp.exp)
                /\ ls'[AccessKey] = flow[s].resp.access
                /\ ls'[AccessExpKey] = flow[s].resp.exp
                /\ ls'[RefreshKey] = flow[s].rt
                /\ ls'[RefreshExpKey] = flow[s].rx]_vars

(***************************************************************************)
(* C10: an interval exists exactly while the mounted hook holds a token    *)
(* and is authenticated; every check whose refresh attempt returns false   *)
(* or throws goes on to logout, and when that check ends logout has been   *)
(* performed and the user has been navigated to '/', whether or not a      *)
(* user-triggered request is in flight.                                    *)
(***************************************************************************)
CheckFailed(f) == f.kind = "check" /\ f.path \in {"failed", "missing"}

C11_RequestCarriesResolvedToken ==
    \A s \in UserSlots :
        (flow[s].kind \in {"api", "fetch"} /\ flow[s].sent) =>
            /\ flow[s].path # "none"
            /\ Truthy(flow[s].bearer)
            /\ flow[s].bearer = flow[s].tok

(***************************************************************************)
(* C12: isAuthenticated gives the same result for any two storage states   *)
(* that differ only in the stored access expiry.                           *)
(***************************************************************************)
\* What the access-expiry field can hold: absent, a timestamp, or a string
\* that is not a timestamp.
ExpiryValues == {Null, "", "null"} \cup {IsoString(t) : t \in Times}

C12_IsAuthenticatedIgnoresAccessExpiry ==
    \A v \in ExpiryValues :
        IsAuthenticated([ls EXCEPT ![AccessExpKey] = v], now) = IsAuthenticated(ls, now)

\* Authenticated with a stale access token: a state whose fresh-access twin
\* differs from it only in the access expiry.
C12_Witness ==
    /\ StoredPair(ls)
    /\ AccessStale(ls, now)
    /\ IsAuthenticated(ls, now)
    /\ \E v \in ExpiryValues :
          /\ AccessFresh([ls EXCEPT ![AccessExpKey] = v], now)
          /\ IsAuthenticated([ls EXCEPT ![AccessExpKey] = v], now)

(***************************************************************************)
(* C13: after a login, a getValidAccessToken call made once the access     *)
(* expiry has passed (refresh expiry still ahead) sends exactly one        *)
(* refresh request and, when that succeeds, returns the refreshed token;   *)
(* a call made once the refresh expiry has passed, the access expiry lying *)
(* no later than it as in the scenario, returns null without a refresh.    *)
(***************************************************************************)
C13_LoginRefreshThenExpiry ==
    [][\A s \in UserSlots :
         /\ (CallBegins(s) /\ StoredPair(ls) /\ AccessStale(ls, now)
                /\ RefreshFresh(ls, now)) =>
                (flow'[s].pc = "refreshSent" /\ flow'[s].nRefresh = 1)
         /\ (RefreshSettles(s) /\ flow[s].resp.ok) =>
                (flow'[s].nRefresh = 1 /\ flow'[s].tok = flow[s].resp.access)
         /\ (CallBegins(s) /\ StoredPair(ls) /\ RefreshStale(ls, now)
                /\ DateOf(ls[AccessExpKey]) <= DateOf(ls[RefreshExpKey])) =>
                (flow'[s].tok = Null /\ flow'[s].nRefresh = 0
                   /\ flow'[s].pc # "refreshSent")]_vars

\* The scenario has run: one login, one operation that refreshed the access
\* token and has settled, and a bare call after the refresh expiry that
\* returned null.
C13_Witness ==
    \E s \in UserSlots :
        /\ flow[s].kind = "call" /\ flow[s].pc = "done"
        /\ flow[s].path = "expired" /\ flow[s].tok = Null
        /\ flow[s].rt = RefreshName(1)
        /\ IsDate(flow[s].rx) /\ now >= DateOf(flow[s].rx)
        /\ issued = 2 /\ started = 3
        /\ \A o \in Slots : Free(o)

(***************************************************************************)
(* C14: a handler invoked on an invalid form issues no request and shows a *)
(* validation toast: handleChangePassword when a password field is empty   *)
(* or the two new passwords differ, handleCreateComponent and              *)
(* handleCreateMileageLog when a required field is missing.                *)
(***************************************************************************)
\* A form field that was never set or is the empty string.
Missing(v) == v = Undefined \/ v = ""

\* This step is a handler being invoked on the open page.
HandlerRuns(page) == form.page = page /\ submits' = submits + 1

NoCallButValidationToast ==
    /\ netCalls' = netCalls
    /\ pending' = "none"
    /\ toast'.title = "Validation Error"

C14_InvalidFormNoNetworkCall ==
    [][/\ (/\ HandlerRuns("password")
            /\ \/ Missing(form.old_password) \/ Missing(form.new_password)
               \/ Missing(form.new_password_confirm)
               \/ form.new_password # form.new_password_confirm)
            => NoCallButValidationToast
       /\ (/\ HandlerRuns("component")
            /\ \/ Missing(form.component_id) \/ Missing(form.component_type)
               \/ Missing(form.trainset))
            => NoCallButValidationToast
       /\ (/\ HandlerRuns("mileage")
            /\ \/ Missing(form.trainset) \/ Missing(form.date)
               \/ Missing(form.starting_mileage) \/ Missing(form.ending_mileage))
            => NoCallButValidationToast]_vars

\* handleChangePassword has run on a form with all fields filled and two
\* different new passwords: the mismatch toast, and no request.
C14_Witness ==
    /\ form.page = "password"
    /\ submits > 0
    /\ ~Missing(form.old_password) /\ ~Missing(form.new_password)
    /\ ~Missing(form.new_password_confirm)
    /\ form.new_password # form.new_password_confirm
    /\ toast = Toast("Validation Error", "New passwords do not match")
    /\ netCalls = 0 /\ pending = "none"

(***************************************************************************)
(* C15: every network-facing operation that gets a non-OK response rejects *)
(* with an error whose message is the first non-empty of the body's error, *)
(* message and detail fields, or 'HTTP error! status: <status>' when the   *)
(* body has none of them or cannot be parsed.                              *)
(***************************************************************************)
\* The message the statement prescribes for a response.
PrescribedMessage(status, body) ==
    IF body.json = "object" /\ ~Missing(body.error) THEN body.error
    ELSE IF body.json = "object" /\ ~Missing(body.message) THEN body.message
    ELSE IF body.json = "object" /\ ~Missing(body.detail) THEN body.detail
    ELSE "HTTP error! status: " \o ToString(status)

C15_NonOkRejectsWithBodyMessage ==
    (handled.handler # "none" /\ ~ResponseOk(handled.status)) =>
        /\ handled.outcome = "rejected"
        /\ handled.message = PrescribedMessage(handled.status, handled.body)

(***************************************************************************)
(* C16: a failure other than 401 of a request (a server error status, or   *)
(* no response at all) ends the operation in that same step, the request   *)
(* is not sent again, and the stored credentials and the cached user       *)
(* profile are left as they were.                                          *)
(***************************************************************************)
\* In this step the request of slot s gets a failure other than 401.
TransientFailure(s) ==
    /\ flow[s].pc = "httpSent"
    /\ flow'[s] # flow[s]
    /\ flow'[s].status \notin {200, 401}

C16_TransientErrorNoRetryNoPurge ==
    [][\A s \in UserSlots :
         TransientFailure(s) =>
            /\ flow'[s].pc = "done"
            /\ flow'[s].outcome # "none"
            /\ ls' = ls]_vars

\* An ApiClient request has been rejected on a 500 while the credential
\* pair and the cached profile are still stored.
C16_Witness ==
    \E s \in UserSlots :
        /\ flow[s].kind = "api" /\ flow[s].pc = "done"
        /\ flow[s].status = 500 /\ flow[s].outcome = "rejected"
        /\ Truthy(flow[s].bearer)
        /\ StoredPair(ls) /\ Truthy(ls[UserKey])

(***************************************************************************)
(* C17: whenever a successful refresh response is processed, by a user     *)
(* call or by the background check, the access token and the access expiry *)
(* left in storage are both that response's; and at no time does storage   *)
(* hold the access token of a response still on record with an access      *)
(* expiry other than that response's.                                      *)
(***************************************************************************)
\* In this step slot s (a user call or the background check) processes the
\* answer of its refresh exchange.
ExchangeSettles(s) ==
    /\ flow[s].pc = "refreshAnswered"
    /\ flow'[s].pc # "refreshAnswered"

C17_LastProcessedResponseWins ==
    [][/\ \A s \in Slots :
            (ExchangeSettles(s) /\ flow[s].resp.ok) =>
               /\ ls'[AccessKey] = flow[s].resp.access
               /\ ls'[AccessExpKey] = flow[s].resp.exp
       /\ \A s \in Slots :
            (flow'[s].resp.ok /\ ls'[AccessKey] = flow'[s].resp.access) =>
               ls'[AccessExpKey] = flow'[s].resp.exp]_vars

\* Two overlapping user exchanges for the same refresh token have both
\* succeeded, with different expiries, and storage holds the token and the
\* expiry of the one answered first, which was processed last.
C17_Witness ==
    /\ flow["u1"].pc = "done" /\ flow["u1"].path = "refreshed"
    /\ flow["u2"].pc = "done" /\ flow["u2"].path = "refreshed"
    /\ flow["u1"].rt = flow["u2"].rt
    /\ DateOf(flow["u1"].resp.exp) < DateOf(flow["u2"].resp.exp)
    /\ ls[AccessKey] = flow["u1"].resp.access
    /\ ls[AccessExpKey] = flow["u1"].resp.exp

(***************************************************************************)
(* C18: once the hook's cleanup has run no interval is left and no check   *)
(* starts; a check that was pending when the cleanup ran is not cancelled, *)
(* and when it resolves it still stores the refreshed token, or logs out   *)
(* (the purge) and navigates to '/'.                                       *)
(***************************************************************************)
\* This step starts a background check.
CheckStarts == ~CheckPending /\ flow'["bg"].kind = "check" /\ started' = started + 1

C18_TeardownStopsTimerNotInFlightCheck ==
    [][/\ ~hookMounted' => ~timer'
       /\ CheckStarts => (hookMounted /\ timer)
       /\ CheckPending => (flow'["bg"].kind = "check" /\ flow'["bg"].pc # "idle")
       /\ (flow["bg"].torn /\ ExchangeSettles("bg")) =>
             IF flow["bg"].resp.ok
             THEN /\ ls'[AccessKey] = flow["bg"].resp.access
                  /\ ls'[AccessExpKey] = flow["bg"].resp.exp
             ELSE flow'["bg"].pc = "logout"
       /\ (flow["bg"].torn /\ flow["bg"].pc = "logout" /\ flow'["bg"].pc # "logout") =>
             /\ flow'["bg"].pc = "done"
             /\ flow'["bg"].out /\ flow'["bg"].nav
             /\ PurgedWithUser(ls')]_vars

\* The cleanup ran while a check was pending, the hook has stayed torn
\* down, and the check has since logged out and navigated.
C18_Witness ==
    /\ ~hookMounted /\ ~timer
    /\ flow["bg"].kind = "check" /\ flow["bg"].torn
    /\ flow["bg"].pc = "done" /\ flow["bg"].path = "failed"
    /\ flow["bg"].out /\ flow["bg"].nav
    /\ PurgedWithUser(ls)

(***************************************************************************)
(* C19: whenever an authenticated HTTP request receives a 401, then once   *)
(* the handling of that response completes the caller has been sent to '/' *)
(* and the request's promise has rejected; in ApiClient credentials and    *)
(* cached profile are purged by then, in authenticatedFetch logout has     *)
(* completed by then.                                                      *)
(***************************************************************************)
C19_Any401RedirectsAndRejects ==
    [][\A s \in UserSlots :
         (flow[s].pc # "done" /\ flow'[s].pc = "done" /\ flow'[s].status = 401) =>
            /\ flow'[s].nav
            /\ flow'[s].outcome = "rejected"
            /\ flow'[s].kind = "api" => PurgedWithUser(ls')
            /\ flow'[s].kind = "fetch" => flow'[s].out]_vars

(***************************************************************************)
(* C20: once a stored credential pair has been destroyed, the four         *)
(* credential fields stay absent until a new login stores a pair; in       *)
(* particular a refresh exchange that was in flight at the purge writes    *)
(* nothing back when it succeeds.  Stated for every step other than a      *)
(* login, a call of the legacy storeToken, and the store made by the       *)
(* background check (AuthContext's refreshAccessToken).                    *)
(***************************************************************************)
\* This step is a login: the only operation that is counted and is issued a
\* token in the same step.
LoginStep == started' = started + 1 /\ issued' = issued + 1

\* This step is storeToken(token) of the legacy interface.
LegacyStoreStep == ls[AccessKey] # LegacyToken /\ ls'[AccessKey] = LegacyToken

\* A pair was issued at some time and no credential field is stored now.
PairDestroyed == issued > 0 /\ Purged(ls)

C20_DestroyedPairStaysAbsent ==
    [][(PairDestroyed /\ ~LoginStep /\ ~LegacyStoreStep /\ ~ExchangeSettles("bg"))
          => Purged(ls')]_vars

(***************************************************************************)
(* C21: whenever credentials are stored, the stored refresh expiry is the  *)
(* one issued together with the stored refresh token and the stored access *)
(* expiry is the one issued together with the stored access token.  The    *)
(* pairs on record are those of the operations at hand: the refresh token  *)
(* and refresh expiry a call read together when it began, and the access   *)
(* token and access expiry of a refresh response.                          *)
(***************************************************************************)
C21_StoredExpiriesBelongToStoredTokens ==
    /\ \A s \in UserSlots :
          (Truthy(flow[s].rt) /\ IsDate(flow[s].rx) /\ ls[RefreshKey] = flow[s].rt) =>
              ls[RefreshExpKey] = flow[s].rx
    /\ \A s \in UserSlots :
          (flow[s].resp.ok /\ ls[AccessKey] = flow[s].resp.access) =>
              ls[AccessExpKey] = flow[s].resp.exp

(***************************************************************************)
(* C22: every getValidAccessToken call that awaits the refresh endpoint    *)
(* eventually resolves, given that the endpoint answers or fails; a call   *)
(* never rejects, a failed exchange gives null, and no call sends more     *)
(* than one refresh request.                                               *)
(***************************************************************************)
\* The getValidAccessToken call of slot s is awaiting its refresh exchange.
AwaitingRefresh(s) == flow[s].pc \in {"refreshSent", "refreshAnswered"}

C22_CallResolvesNeverRejects ==
    /\ \A s \in UserSlots : AwaitingRefresh(s) ~> ~AwaitingRefresh(s)
    /\ [](\A s \in UserSlots :
            /\ flow[s].nRefresh <= 1
            /\ flow[s].kind = "call" => flow[s].outcome # "rejected"
            /\ flow[s].path = "failed" => flow[s].tok = Null)

\* Two bare calls have resolved after one exchange each, one to the
\* refreshed token and one, its exchange having failed, to null.
C22_Witness ==
    /\ \A s \in UserSlots :
          /\ flow[s].kind = "call" /\ flow[s].pc = "done"
          /\ flow[s].outcome = "resolved" /\ flow[s].nRefresh = 1
    /\ \E s \in UserSlots : flow[s].path = "failed" /\ flow[s].tok = Null
    /\ \E s \in UserSlots : flow[s].path = "refreshed" /\ Truthy(flow[s].tok)

(***************************************************************************)
(* C23: when the stored access token or the stored refresh token is        *)
(* missing or empty, getValidAccessToken returns null, sends no refresh    *)
(* request and leaves every stored key as it was.                          *)
(***************************************************************************)
\* A token field that is absent or holds the empty string.
TokenMissing(st, k) == st[k] = Null \/ st[k] = ""

C23_MissingTokenNullNoChange ==
    [][\A s \in UserSlots :
         (CallBegins(s) /\ (TokenMissing(ls, AccessKey) \/ TokenMissing(ls, RefreshKey))) =>
            /\ flow'[s].path = "missing"
            /\ flow'[s].tok = Null
            /\ flow'[s].nRefresh = 0
            /\ ~AwaitingRefresh(s)'
            /\ ls' = ls]_vars

\* A bare call has returned null for want of a refresh token while an access
\* token is stored, and it is still stored.
C23_Witness ==
    \E s \in UserSlots :
        /\ flow[s].kind = "call" /\ flow[s].pc = "done"
        /\ flow[s].path = "missing" /\ flow[s].tok = Null
        /\ flow[s].nRefresh = 0
        /\ Truthy(ls[AccessKey]) /\ TokenMissing(ls, RefreshKey)

(***************************************************************************)
(* C24: when getValidAccessToken resolves to null, authenticatedFetch      *)
(* dispatches no request: it awaits logout, and only when logout has       *)
(* completed navigates to '/' and rejects with 'Authentication required';  *)
(* a response whose status is not 401 is returned to the caller without    *)
(* logout or navigation.                                                   *)
(***************************************************************************)
\* The authenticatedFetch of slot s got null from getValidAccessToken.
FetchGotNull(s) ==
    /\ flow[s].kind = "fetch"
    /\ flow[s].path \in {"missing", "expired", "failed"}

C24_FetchNullTokenLogsOutNoRequest ==
    \A s \in UserSlots :
        /\ FetchGotNull(s) =>
              /\ ~flow[s].sent /\ flow[s].bearer = Null
              /\ flow[s].pc \in {"logout", "done"}
              /\ flow[s].pc = "logout" =>
                    (~flow[s].out /\ ~flow[s].nav /\ flow[s].outcome = "none")
              /\ flow[s].pc = "done" =>
                    /\ flow[s].out /\ flow[s].nav
                    /\ flow[s].outcome = "rejected"
                    /\ flow[s].err = "Authentication required"
        /\ (flow[s].kind = "fetch" /\ flow[s].status \in {200, 500}) =>
              /\ flow[s].pc = "done"
              /\ flow[s].outcome = "resolved"
              /\ ~flow[s].out /\ ~flow[s].nav

\* An authenticatedFetch whose refresh exchange failed has logged out,
\* navigated and rejected without a request having been sent.
C24_Witness ==
    \E s \in UserSlots :
        /\ flow[s].kind = "fetch" /\ flow[s].pc = "done"
        /\ flow[s].path = "failed" /\ flow[s].nRefresh = 1
        /\ ~flow[s].sent
        /\ flow[s].out /\ flow[s].nav
        /\ flow[s].err = "Authentication required"
        /\ ctxToken = Null

C26_CheckLogoutBeforeNavigate ==
    LET f == flow["bg"]
    IN  f.kind = "check" =>
          /\ f.path = "refreshed" => (f.pc = "done" /\ ~f.out /\ ~f.nav)
          /\ f.nav => f.out
          /\ f.pc = "logout" => (CheckFailed(f) /\ ~f.out /\ ~f.nav)
          /\ (f.pc = "done" /\ CheckFailed(f)) => f.out

\* A check whose refresh succeeded has ended without logout or navigation:
\* the refreshed token is stored and is the context's token.
C26_Witness ==
    LET f == flow["bg"]
    IN  /\ f.kind = "check" /\ f.pc = "done" /\ f.path = "refreshed"
        /\ ~f.out /\ ~f.nav
        /\ ls[AccessKey] = f.tok /\ ctxToken = f.tok

(***************************************************************************)
(* C27: once a termination has succeeded and every load has completed, the *)
(* displayed list is the response of a load started after that             *)
(* termination; and the loading flag is true whenever a load is in flight. *)
(* The first part is stated for behaviours in which no load has failed     *)
(* since the termination.                                                  *)
(***************************************************************************)
LoadingWhileInFlight == loads # <<>> => loading

ShownIsFromReload ==
    (tally.succeeded > 0 /\ loads = <<>> /\ ~tally.loadFailed) =>
        shownAfter = tally.succeeded

C27_ReloadAfterTerminationWins ==
    /\ LoadingWhileInFlight
    /\ ShownIsFromReload

(***************************************************************************)
(* C28: a per-session termination is sent only for a row whose is_current  *)
(* flag is false, with that row's id; Terminate All Others is sent only    *)
(* from a list with at least one row that is not current, with an empty    *)
(* session id and terminate_all_others true.                               *)
(***************************************************************************)
C28_TerminateOnlyOtherSessions ==
    \A t \in DOMAIN terms :
        IF terms[t].row # NoRow
           THEN /\ ~terms[t].row.is_current
                /\ terms[t].row \in terms[t].shown
                /\ terms[t].body.session_id = terms[t].row.id
                /\ terms[t].body.terminate_all_others # JsTrue
           ELSE /\ \E s \in terms[t].shown : ~s.is_current
                /\ terms[t].body.session_id = ""
                /\ terms[t].body.terminate_all_others = JsTrue

\* A per-session termination is in flight, clicked on a list that also
\* showed the current session.
C28_Witness ==
    \E t \in DOMAIN terms :
        /\ terms[t].row # NoRow
        /\ terms[t].row.id \in RemoteIds
        /\ \E s \in terms[t].shown : s.is_current
        /\ terms[t].pc = "sent"

(***************************************************************************)
(* C29: the step that completes a successful termination starts a reload   *)
(* and invokes onSessionTerminated once, with that reload in flight; the   *)
(* step that completes a failed termination invokes nothing, starts no     *)
(* load and leaves the list as it was; so the invocations number the       *)
(* terminations that succeeded.                                            *)
(***************************************************************************)
TerminationCompletes(t) ==
    /\ t \in DOMAIN terms
    /\ terms[t].pc = "answered"
    /\ terms' = RemoveAt(terms, t)

C29_CallbackOncePerSuccess ==
    /\ [](callbacks.supplied => callbacks.calls = tally.succeeded)
    /\ [][\A t \in DOMAIN terms : TerminationCompletes(t) =>
             IF terms[t].ok
                THEN /\ Len(loads') = Len(loads) + 1
                     /\ loads'[Len(loads')].pc = "sent"
                     /\ loads'[Len(loads')].by = "reload"
                     /\ callbacks.supplied =>
                           /\ callbacks'.calls = callbacks.calls + 1
                           /\ callbacks'.saw = Len(loads) + 1
                ELSE /\ callbacks' = callbacks
                     /\ loads' = loads
                     /\ sessions' = sessions]_vars

\* A termination has succeeded: its reload is in flight and the callback
\* has been invoked once.
C29_Witness ==
    /\ callbacks.supplied /\ callbacks.calls = 1 /\ callbacks.saw >= 1
    /\ tally.succeeded = 1
    /\ toast.title = "Session Terminated"
    /\ \E i \in DOMAIN loads : loads[i].by = "reload" /\ loads[i].pc = "sent"

(***************************************************************************)
(* C30: for an integer s, formatTimeRemaining(s) is 'Expired' when s <= 0, *)
(* '<h>h <m>m' with h = s div 3600 and m = (s mod 3600) div 60 when        *)
(* s >= 3600, and '<m>m' with m = s div 60, between 0 and 59, otherwise;   *)
(* the progress value lies within 0..100 and is 100 exactly when           *)
(* s >= 3600.                                                              *)
(***************************************************************************)
C30_FormatTimeRemaining ==
    rendered # NoRender =>
        LET s == rendered.seconds
        IN  /\ s <= 0 => rendered.text = "Expired"
            /\ s >= 3600 =>
                  rendered.text = ToString(s \div 3600) \o "h "
                                    \o ToString((s % 3600) \div 60) \o "m"
            /\ (s > 0 /\ s < 3600) =>
                  /\ rendered.text = ToString(s \div 60) \o "m"
                  /\ (s \div 60) \in 0..59
            /\ rendered.progress >= 0
            /\ rendered.progress <= 100 * ProgressDen
            /\ (rendered.progress = 100 * ProgressDen) <=> (s >= 3600)

\* A row with two hours, one minute and forty seconds left has been rendered.
C30_Witness ==
    /\ rendered.seconds = 7300
    /\ rendered.text = "2h 1m"
    /\ rendered.progress = 100 * ProgressDen

====
